---------------------------- MODULE Spec2Model ----------------------------
(***************************************************************************)
(* Model of weather_news_agent.py: the WeatherNewsAgent class (weather      *)
(* client, country resolver, news client, report formatter, mailer) and     *)
(* the main() driver.                                                       *)
(*                                                                          *)
(* Text is modelled as a sequence of chunks (TLA+ strings).  A string the   *)
(* program inspects character by character (the location) is a sequence of  *)
(* one-character chunks; a literal piece of an f-string is one chunk.       *)
(* String concatenation / f-string interpolation is \o, and "x in s" is     *)
(* the contiguous-subsequence test.                                         *)
(***************************************************************************)
EXTENDS Integers, Sequences, FiniteSets, TLC

VARIABLES
    pc,               \* position of the driver / of the function under call
    weather_api_key,  \* self.weather_api_key
    news_api_key,     \* self.news_api_key
    branch,           \* which branch of main() was taken: "none", "mock", "live"
    prompts,          \* depth of the get_location_input recursion
    location,         \* local `location`
    geoResp,          \* what the geocoding endpoint answered (input, recorded)
    wxResp,           \* what the current-conditions endpoint answered
    newsResp,         \* what the top-headlines endpoint answered
    weather_info,     \* local `weather_info`
    news_info,        \* local `news_info`
    country,          \* value returned by get_country_code
    calls,            \* methods invoked by the driver, in order
    http,             \* HTTP requests issued, in order
    mail              \* what send_report_email did and returned

vars == << pc, weather_api_key, news_api_key, branch, prompts, location, geoResp,
           wxResp, newsResp, weather_info, news_info, country, calls,
           http, mail >>

---------------------------------------------------------------------------
(* Bounds of the model *)

\* re-prompts on empty input that the model follows (the code never stops)
MaxPrompts == 2
\* longest articles list a news response carries in the news-client runs
MaxArticles == 6
\* longest articles list a news response carries in the whole-program runs
MaxRunArticles == 1
\* mail steps that the environment makes fail in one call
MaxFailures == 2
\* clock readings (ticks) at which rendering starts, 0..MaxClock
MaxClock == 1
\* ticks the clock can advance between the renderer's two readings
MaxDelay == 1
\* clock ticks in the minute that strftime's %M resolves
TicksPerMinute == 2

---------------------------------------------------------------------------
(* Characters and strings *)

Lc == << "a","b","c","d","e","f","g","h","i","j","k","l","m",
         "n","o","p","q","r","s","t","u","v","w","x","y","z" >>

Uc == << "A","B","C","D","E","F","G","H","I","J","K","L","M",
         "N","O","P","Q","R","S","T","U","V","W","X","Y","Z" >>

IsUpper(c) == \E i \in 1..Len(Uc) : Uc[i] = c

IsLower(c) == \E i \in 1..Len(Lc) : Lc[i] = c

LowerChar(c) == IF IsUpper(c) THEN Lc[CHOOSE i \in 1..Len(Uc) : Uc[i] = c] ELSE c

UpperChar(c) == IF IsLower(c) THEN Uc[CHOOSE i \in 1..Len(Lc) : Lc[i] = c] ELSE c

\* str.lower()
lower(s) == [i \in 1..Len(s) |-> LowerChar(s[i])]

\* str.upper()
upper(s) == [i \in 1..Len(s) |-> UpperChar(s[i])]

\* str.title(): a letter that follows a non-letter is upper-cased, any other lower-cased
title(s) ==
    [i \in 1..Len(s) |->
        IF i = 1 \/ ~(IsUpper(s[i-1]) \/ IsLower(s[i-1]))
        THEN UpperChar(s[i]) ELSE LowerChar(s[i])]

IsSpace(c) == c \in {" ", "\t"}

RECURSIVE lstrip(_)
lstrip(s) == IF s # <<>> /\ IsSpace(Head(s)) THEN lstrip(Tail(s)) ELSE s

RECURSIVE rstrip(_)
rstrip(s) ==
    IF s # <<>> /\ IsSpace(s[Len(s)]) THEN rstrip(SubSeq(s, 1, Len(s) - 1)) ELSE s

\* str.strip()
strip(s) == rstrip(lstrip(s))

\* Python's `sub in s` on strings
Contains(sub, s) ==
    \E i \in 0..(Len(s) - Len(sub)) : SubSeq(s, i + 1, i + Len(sub)) = sub

\* any(city in location_lower for city in cities)
AnyIn(cities, s) == \E k \in 1..Len(cities) : Contains(cities[k], s)

---------------------------------------------------------------------------
(* Country resolver: get_country_code *)

us_cities ==
    << <<"n","e","w"," ","y","o","r","k">>,
       <<"l","o","s"," ","a","n","g","e","l","e","s">>,
       <<"c","h","i","c","a","g","o">>,
       <<"h","o","u","s","t","o","n">>,
       <<"p","h","o","e","n","i","x">> >>

gb_cities ==
    << <<"l","o","n","d","o","n">>,
       <<"m","a","n","c","h","e","s","t","e","r">>,
       <<"b","i","r","m","i","n","g","h","a","m">>,
       <<"g","l","a","s","g","o","w">> >>

ca_cities ==
    << <<"t","o","r","o","n","t","o">>,
       <<"v","a","n","c","o","u","v","e","r">>,
       <<"m","o","n","t","r","e","a","l">>,
       <<"c","a","l","g","a","r","y">> >>

au_cities ==
    << <<"s","y","d","n","e","y">>,
       <<"m","e","l","b","o","u","r","n","e">>,
       <<"b","r","i","s","b","a","n","e">>,
       <<"p","e","r","t","h">> >>

de_cities ==
    << <<"b","e","r","l","i","n">>,
       <<"m","u","n","i","c","h">>,
       <<"h","a","m","b","u","r","g">>,
       <<"f","r","a","n","k","f","u","r","t">> >>

fr_cities ==
    << <<"p","a","r","i","s">>,
       <<"m","a","r","s","e","i","l","l","e">>,
       <<"l","y","o","n">>,
       <<"t","o","u","l","o","u","s","e">> >>

es_cities ==
    << <<"m","a","d","r","i","d">>,
       <<"b","a","r","c","e","l","o","n","a">>,
       <<"v","a","l","e","n","c","i","a">>,
       <<"s","e","v","i","l","l","e">> >>

ru_cities ==
    << <<"m","o","s","c","o","w">>,
       <<"s","a","i","n","t"," ","p","e","t","e","r","s","b","u","r","g">>,
       <<"n","o","v","o","s","i","b","i","r","s","k">> >>

cn_cities ==
    << <<"b","e","i","j","i","n","g">>,
       <<"s","h","a","n","g","h","a","i">>,
       <<"g","u","a","n","g","z","h","o","u">>,
       <<"s","h","e","n","z","h","e","n">> >>

in_cities ==
    << <<"m","u","m","b","a","i">>,
       <<"d","e","l","h","i">>,
       <<"b","a","n","g","a","l","o","r","e">>,
       <<"h","y","d","e","r","a","b","a","d">> >>

get_country_code_no_lower(loc) ==
    IF AnyIn(us_cities, loc) THEN "us"
    ELSE IF AnyIn(gb_cities, loc) THEN "gb"
    ELSE IF AnyIn(ca_cities, loc) THEN "ca"
    ELSE IF AnyIn(au_cities, loc) THEN "au"
    ELSE IF AnyIn(de_cities, loc) THEN "de"
    ELSE IF AnyIn(fr_cities, loc) THEN "fr"
    ELSE IF AnyIn(es_cities, loc) THEN "es"
    ELSE IF AnyIn(ru_cities, loc) THEN "ru"
    ELSE IF AnyIn(cn_cities, loc) THEN "cn"
    ELSE IF AnyIn(in_cities, loc) THEN "in"
    ELSE "us"

get_country_code(loc) ==
    LET location_lower == lower(loc) IN
    IF AnyIn(us_cities, location_lower) THEN "us"
    ELSE IF AnyIn(gb_cities, location_lower) THEN "gb"
    ELSE IF AnyIn(ca_cities, location_lower) THEN "ca"
    ELSE IF AnyIn(au_cities, location_lower) THEN "au"
    ELSE IF AnyIn(de_cities, location_lower) THEN "de"
    ELSE IF AnyIn(fr_cities, location_lower) THEN "fr"
    ELSE IF AnyIn(es_cities, location_lower) THEN "es"
    ELSE IF AnyIn(ru_cities, location_lower) THEN "ru"
    ELSE IF AnyIn(cn_cities, location_lower) THEN "cn"
    ELSE IF AnyIn(in_cities, location_lower) THEN "in"
    ELSE "us"

---------------------------------------------------------------------------
(* Results of a method call: ret is the returned value, raised says whether *)
(* an exception leaves the method instead.                                  *)

Returns(value) == [ret |-> value, raised |-> FALSE]

\* an except clause that lets the exception go on to the caller
except_reraise(prefix, e) == [ret |-> << >>, raised |-> TRUE]

\* `except Exception as e: return f"<prefix>{str(e)}"`
except_Exception(prefix, e) == Returns(<< prefix, e >>)

---------------------------------------------------------------------------
(* Weather client: get_weather_data.  Pictographs of the source's string    *)
(* literals are left out of the chunks.                                     *)

\* the success value of the `cod` field
CodSuccess == 200

\* a comparison that only knows integer status codes
CodDiffers_int_only(cod) == cod.type = "int" /\ cod.val # CodSuccess

\* weather_data.get('cod') != 200: a JSON string such as "404" or "200" differs
\* from the integer 200
CodDiffers(cod) == ~(cod.type = "int" /\ cod.val = CodSuccess)

\* data.get('message', 'Unknown error')
MessageOf(resp) == IF resp.hasMessage THEN resp.message ELSE "Unknown error"

\* `not geo_data`: the geocoder's array has no entry
NoMatch(geo) == geo.kind = "list" /\ geo.body = << >>

\* str(e) of the exception that geo_data[0]['lat'], ['lon'], ['name'] raise, "" if
\* none: KeyError(0) on an error object, IndexError on an empty list, KeyError on
\* an entry without the field
GeoSubscriptError(geo) ==
    IF geo.kind # "list" THEN "0"
    ELSE IF geo.body = << >> THEN "list index out of range"
    ELSE IF ~geo.body[1].complete THEN "'lat'"
    ELSE ""

\* the formatted block of lines 74-80
WeatherBlock(city_name, wx) ==
    << "\nLocation: " >> \o city_name
    \o << "\nTemperature: ", wx.temp, "C (feels like ", wx.feels_like, "C)",
          "\nConditions: " >> \o title(wx.description)
    \o << "\nHumidity: ", wx.humidity, "%",
          "\nWind Speed: ", wx.wind_speed, " m/s\n" >>

GeoRequest(loc) == [ep |-> "geo", q |-> loc]

WeatherRequest(entry) == [ep |-> "weather", q |-> << entry.lat, entry.lon >>]

\* get_weather_data(location) given what the two endpoints answer; reqs are the
\* requests it issued.  A response with raises = TRUE is one for which
\* requests.get or .json() raises; a weather body with complete = FALSE lacks a
\* field the code subscripts.
get_weather_data(loc, geo, wx) ==
    LET geoReq == << GeoRequest(loc) >> IN
    IF geo.raises THEN
        except_Exception(" Error fetching weather: ", geo.err) @@ [reqs |-> geoReq]
    ELSE IF NoMatch(geo) THEN
        Returns(<< " Could not find location: " >> \o loc) @@ [reqs |-> geoReq]
    ELSE IF GeoSubscriptError(geo) # "" THEN
        except_Exception(" Error fetching weather: ", GeoSubscriptError(geo))
            @@ [reqs |-> geoReq]
    ELSE LET reqs == << GeoRequest(loc), WeatherRequest(geo.body[1]) >> IN
        IF wx.raises THEN
            except_Exception(" Error fetching weather: ", wx.err) @@ [reqs |-> reqs]
        ELSE IF CodDiffers(wx.cod) THEN
            Returns(<< " Error fetching weather data: ", MessageOf(wx) >>)
                @@ [reqs |-> reqs]
        ELSE IF ~wx.complete THEN
            except_Exception(" Error fetching weather: ", "'main'") @@ [reqs |-> reqs]
        ELSE Returns(WeatherBlock(geo.body[1].name, wx)) @@ [reqs |-> reqs]

---------------------------------------------------------------------------
(* News client: get_local_news *)

\* articles[:5]
TopArticles == 5

NewsRequest(cc) == [ep |-> "news", q |-> << cc >>]

\* a test for "no articles" that never fires
NoArticles_never(articles) == FALSE

\* `not articles`
NoArticles(articles) == articles = << >>

\* a slice that keeps every article
Slice_all(articles, n) == articles

\* articles[:n]
Slice(articles, n) ==
    SubSeq(articles, 1, IF Len(articles) < n THEN Len(articles) ELSE n)

\* one pass of the loop body, line 110
NewsEntry(i, article) ==
    << "\n", ToString(i), ". ", article.title,
       "\n   Source: ", article.source, "\n" >>

\* the loop of lines 107-110 from index `from` on; enumerate(..., 1) numbers from 1
RECURSIVE FormatArticles(_, _)
FormatArticles(articles, from) ==
    IF from > Len(articles) THEN << >>
    ELSE NewsEntry(from, articles[from]) \o FormatArticles(articles, from + 1)

\* get_local_news(location) given what the top-headlines endpoint answers.
\* An article of articles[:5] with complete = FALSE lacks 'title' or
\* 'source'/'name' and raises KeyError inside the loop;
\* news_data.get('articles', []) makes a missing key an empty list.
get_local_news(loc, resp) ==
    LET cc == get_country_code(loc)
        more == [reqs |-> << NewsRequest(cc) >>, country |-> cc]
    IN
    IF resp.raises THEN
        except_Exception("Error fetching news: ", resp.err) @@ more
    ELSE IF resp.status # "ok" THEN
        Returns(<< " Error fetching news: ", MessageOf(resp) >>) @@ more
    ELSE IF NoArticles(resp.articles) THEN
        Returns(<< " No news available for this location" >>) @@ more
    ELSE LET top == Slice(resp.articles, TopArticles) IN
        IF \E i \in 1..Len(top) : ~top[i].complete THEN
            except_Exception("Error fetching news: ", "'title'") @@ more
        ELSE
            Returns(<< "\nTOP HEADLINES:\n" >> \o FormatArticles(top, 1)) @@ more

---------------------------------------------------------------------------
(* Report formatter: create_email_content *)

\* datetime.strftime('%B %d, %Y at %I:%M %p') of clock reading t: the text names
\* the minute and nothing finer
strftime(t) == ToString(t \div TicksPerMinute)

\* a formatter that puts the news text into the weather box of the HTML form
create_email_content_swapped(loc, weather, news, t_html, t_text) ==
    [html |-> << "<html><h1>Weather & News Report</h1>Your daily update for " >>
              \o loc
              \o << " Generated on ", strftime(t_html),
                    "<h2>Weather Information</h2>" >>
              \o news
              \o << "<h2>Local & National News</h2>" >>
              \o news
              \o << "<p>Multi-Agent System</p></html>" >>,
     text |-> << "\nWEATHER & NEWS REPORT\n\nLocation: " >>
              \o loc
              \o << "\nGenerated: ", strftime(t_text),
                    "\n\nWEATHER INFORMATION:\n" >>
              \o weather
              \o << "\n\nLOCAL & NATIONAL NEWS:\n" >>
              \o news
              \o << "\n\n---\nThis report was automatically generated\n" >>]

\* create_email_content(location, weather_info, news_info); t_html and t_text are
\* what datetime.now() reads at line 171 and at line 204.  The fixed markup
\* between the interpolated values (style sheet, div and p tags, footer) is
\* shortened to one chunk each.
create_email_content(loc, weather, news, t_html, t_text) ==
    [html |-> << "<html><h1>Weather & News Report</h1>Your daily update for " >>
              \o loc
              \o << " Generated on ", strftime(t_html),
                    "<h2>Weather Information</h2>" >>
              \o weather
              \o << "<h2>Local & National News</h2>" >>
              \o news
              \o << "<p>Multi-Agent System</p></html>" >>,
     text |-> << "\nWEATHER & NEWS REPORT\n\nLocation: " >>
              \o loc
              \o << "\nGenerated: ", strftime(t_text),
                    "\n\nWEATHER INFORMATION:\n" >>
              \o weather
              \o << "\n\nLOCAL & NATIONAL NEWS:\n" >>
              \o news
              \o << "\n\n---\nThis report was automatically generated\n" >>]

---------------------------------------------------------------------------
(* Mailer: send_report_email *)

\* the statements of the try body that can raise, in a wrong order
MailSteps_login_first ==
    << "build_message", "create_default_context", "connect", "login",
       "starttls", "as_string", "sendmail" >>

\* the statements of the try body that can raise, in program order:
\* MIMEMultipart/MIMEText (225-234), ssl.create_default_context (237),
\* smtplib.SMTP(...) (239), starttls (240), login (241), message.as_string()
\* and sendmail (242)
MailSteps ==
    << "build_message", "create_default_context", "connect", "starttls",
       "login", "as_string", "sendmail" >>

\* every step the environment decides the outcome of; "quit" is the QUIT that
\* SMTP.__exit__ sends when the with block is left
MailStepSet == { MailSteps[i] : i \in 1..Len(MailSteps) } \cup { "quit" }

\* index of the first step of the body that raises, Len(MailSteps) + 1 if none
FirstFailure(out) ==
    IF \E i \in 1..Len(MailSteps) : ~out[MailSteps[i]]
    THEN CHOOSE i \in 1..Len(MailSteps) :
            /\ ~out[MailSteps[i]]
            /\ \A j \in 1..(i - 1) : out[MailSteps[j]]
    ELSE Len(MailSteps) + 1

\* the steps the try body executes: each in order up to the first that raises
BodyLog(out) ==
    LET last == IF FirstFailure(out) > Len(MailSteps) THEN Len(MailSteps)
                ELSE FirstFailure(out)
    IN [i \in 1..last |-> [step |-> MailSteps[i], ok |-> out[MailSteps[i]]]]

Completed(log, step) == \E i \in 1..Len(log) : log[i].step = step /\ log[i].ok

\* a with statement whose exit never raises
WithExit_swallow(out, log) ==
    IF Completed(log, "connect")
    THEN [log |-> Append(log, [step |-> "quit", ok |-> out["quit"]]),
          raised |-> \E i \in 1..Len(log) : ~log[i].ok]
    ELSE [log |-> log, raised |-> TRUE]

\* `with smtplib.SMTP(...) as server:` once the body has run as `log` says: if
\* the connection was opened, SMTP.__exit__ sends QUIT on the way out, normal or
\* exceptional, and raises if the server refuses it
WithExit(out, log) ==
    IF Completed(log, "connect")
    THEN [log |-> Append(log, [step |-> "quit", ok |-> out["quit"]]),
          raised |-> (\E i \in 1..Len(log) : ~log[i].ok) \/ ~out["quit"]]
    ELSE [log |-> log, raised |-> TRUE]

\* send_report_email(location, weather_info, news_info): out[s] says whether step
\* s completes when executed.  log: the steps executed with their outcomes;
\* delivered: the message sendmail handed over, if it did.
send_report_email(loc, weather, news, out, t_html, t_text) ==
    LET content == create_email_content(loc, weather, news, t_html, t_text)
        message == [subject |-> << "Daily Weather & News Report - " >> \o loc,
                    text |-> content.text, html |-> content.html]
        done == WithExit(out, BodyLog(out))
    IN [ret |-> ~done.raised,
        raised |-> FALSE,
        log |-> done.log,
        html |-> content.html,
        text |-> content.text,
        delivered |-> IF Completed(done.log, "sendmail") THEN << message >>
                      ELSE << >>]

---------------------------------------------------------------------------
(* Inputs: what the user types and what the providers and the SMTP server   *)
(* answer                                                                   *)

London == << "L","o","n","d","o","n" >>

Oslo == << "O","s","l","o" >>

\* lines typed at the prompt, before .strip()
TypedLines == { << >>, << " " >>, London, << " " >> \o Oslo \o << " ", " " >> }

\* the placeholder main() compares the weather key with
Placeholder == "YOUR_OPENWEATHER_API_KEY"

\* os.getenv('WEATHER_API_KEY'): the placeholder, a key, or None when unset
WeatherKeys == { Placeholder, "owm-key", "None" }

\* os.getenv('NEWS_API_KEY')
NewsKeys == { "YOUR_NEWS_API_KEY", "news-key" }

GeoEntry == [lat |-> "51.5", lon |-> "-0.12", name |-> London, complete |-> TRUE]

GeoFound == [raises |-> FALSE, err |-> "", kind |-> "list", body |-> << GeoEntry >>]

GeoResponses ==
    { GeoFound,
      [GeoFound EXCEPT !.body = << >>],
      [GeoFound EXCEPT !.body = << [GeoEntry EXCEPT !.complete = FALSE] >>],
      [GeoFound EXCEPT !.kind = "dict", !.body = << >>],
      [GeoFound EXCEPT !.raises = TRUE, !.err = "Connection refused", !.body = << >>] }

WxGood ==
    [raises |-> FALSE, err |-> "", cod |-> [type |-> "int", val |-> 200],
     hasMessage |-> FALSE, message |-> "", complete |-> TRUE,
     temp |-> "22.5", feels_like |-> "24.1", humidity |-> "65",
     description |-> << "f","e","w"," ","c","l","o","u","d","s" >>,
     wind_speed |-> "5.2"]

WxFailed(type, val, hasMessage, message) ==
    [WxGood EXCEPT !.cod = [type |-> type, val |-> val], !.hasMessage = hasMessage,
                   !.message = message, !.complete = FALSE]

WxResponses ==
    { WxGood,
      [WxGood EXCEPT !.complete = FALSE],
      [WxGood EXCEPT !.raises = TRUE, !.err = "Read timed out", !.complete = FALSE],
      WxFailed("str", 404, TRUE, "city not found"),
      WxFailed("int", 401, TRUE, "Invalid API key"),
      WxFailed("int", 500, FALSE, ""),
      WxFailed("str", 200, FALSE, "") }

ArticlePool ==
    { [title |-> "Title A", source |-> "Source A", complete |-> TRUE],
      [title |-> "Title B", source |-> "Source B", complete |-> TRUE],
      [title |-> "", source |-> "", complete |-> FALSE] }

\* every articles list of at most n articles of the pool
ArticleLists(n) == UNION { [1..k -> ArticlePool] : k \in 0..n }

NewsOk(articles) ==
    [raises |-> FALSE, err |-> "", status |-> "ok", hasMessage |-> FALSE,
     message |-> "", articles |-> articles]

\* the answers of the top-headlines endpoint with at most n articles
NewsResponses(n) ==
    { NewsOk(a) : a \in ArticleLists(n) }
    \cup { [NewsOk(<< >>) EXCEPT !.status = "error", !.hasMessage = TRUE,
                                 !.message = "apiKeyInvalid"],
           [NewsOk(<< >>) EXCEPT !.status = "error"],
           [NewsOk(<< >>) EXCEPT !.raises = TRUE, !.err = "Expecting value"] }

\* the outcomes of the mail steps: out[s] is FALSE when step s raises
MailOutcomes ==
    { out \in [MailStepSet -> BOOLEAN] :
        Cardinality({ s \in MailStepSet : ~out[s] }) <= MaxFailures }

\* the two clock readings of one rendering
ClockReadings ==
    { << t, t + d >> : t \in 0..MaxClock, d \in 0..MaxDelay }

---------------------------------------------------------------------------
(* main(): the driver *)

mock_weather ==
    << "\nLocation: Demo City\nTemperature: 22C (feels like 24C)\nConditions: Partly Cloudy\nHumidity: 65%\nWind Speed: 5.2 m/s\n" >>

mock_news ==
    << "\nTOP HEADLINES:\n\n1. Breaking: Major weather update for your area\n   Source: National Weather Service\n\n2. Local sports team wins championship\n   Source: Sports Network\n\n3. National economy shows growth\n   Source: Financial Times\n\n4. Technology sector announces new developments\n   Source: Tech Daily\n\n5. Health updates and community news\n   Source: Local News\n" >>

NoResponse == << >>

NoMail ==
    [n |-> 0, location |-> << >>, weather |-> << >>, news |-> << >>,
     ret |-> FALSE, log |-> << >>, html |-> << >>, text |-> << >>,
     delivered |-> << >>]

\* values of the program's locals before anything ran
Blank ==
    /\ branch = "none"
    /\ prompts = 0
    /\ geoResp = NoResponse
    /\ wxResp = NoResponse
    /\ newsResp = NoResponse
    /\ weather_info = << >>
    /\ news_info = << >>
    /\ country = ""
    /\ calls = << >>
    /\ http = << >>
    /\ mail = NoMail

\* WeatherNewsAgent.__init__ has read the environment; main() is about to test the key
Init ==
    /\ pc = "main"
    /\ weather_api_key \in WeatherKeys
    /\ news_api_key \in NewsKeys
    /\ location = << >>
    /\ Blank

\* a startup check that asks for both keys
UseMock_either(wkey, nkey) == wkey = Placeholder \/ nkey = "YOUR_NEWS_API_KEY"

\* line 294: agent.weather_api_key == "YOUR_OPENWEATHER_API_KEY"
UseMock(wkey, nkey) == wkey = Placeholder

\* main() up to its call of get_location_input: lines 289-328 on the mock
\* branch, line 335 and run()'s lines 252-256 on the live one
Main ==
    /\ pc = "main"
    /\ IF UseMock(weather_api_key, news_api_key)
       THEN /\ branch' = "mock"
            /\ calls' = << "get_location_input" >>
       ELSE /\ branch' = "live"
            /\ calls' = << "run", "get_location_input" >>
    /\ pc' = "input"
    /\ UNCHANGED << weather_api_key, news_api_key, prompts, location, geoResp,
                    wxResp, newsResp, weather_info, news_info, country, http, mail >>

\* get_location_input: one line read; an empty line re-enters the method
GetLocationInput ==
    /\ pc = "input"
    /\ \E line \in TypedLines :
        IF strip(line) = << >>
        THEN /\ prompts < MaxPrompts
             /\ prompts' = prompts + 1
             /\ UNCHANGED << pc, location >>
        ELSE /\ location' = strip(line)
             /\ prompts' = 0
             /\ pc' = IF branch = "mock" THEN "mock_send" ELSE "weather"
    /\ UNCHANGED << weather_api_key, news_api_key, branch, geoResp, wxResp,
                    newsResp, weather_info, news_info, country, calls, http, mail >>

\* run(), lines 257-261: weather_info = self.get_weather_data(location)
GetWeather ==
    /\ pc = "weather"
    /\ \E geo \in GeoResponses, wx \in WxResponses :
        LET r == get_weather_data(location, geo, wx) IN
        /\ geoResp' = geo
        /\ wxResp' = IF Len(r.reqs) = 2 THEN wx ELSE NoResponse
        /\ http' = http \o r.reqs
        /\ weather_info' = r.ret
        /\ pc' = IF r.raised THEN "crashed" ELSE "news"
    /\ calls' = Append(calls, "get_weather_data")
    /\ UNCHANGED << weather_api_key, news_api_key, branch, prompts, location,
                    newsResp, news_info, country, mail >>

\* run(), lines 263-265: news_info = self.get_local_news(location)
GetNews ==
    /\ pc = "news"
    /\ \E resp \in NewsResponses(MaxRunArticles) :
        LET r == get_local_news(location, resp) IN
        /\ newsResp' = resp
        /\ http' = http \o r.reqs
        /\ country' = r.country
        /\ news_info' = r.ret
        /\ pc' = IF r.raised THEN "crashed" ELSE "mail"
    /\ calls' = Append(calls, "get_local_news")
    /\ UNCHANGED << weather_api_key, news_api_key, branch, prompts, location,
                    geoResp, wxResp, weather_info, mail >>

\* the call of send_report_email with the given texts, and the caller's print
\* of the outcome
Send(weather, news) ==
    \E out \in MailOutcomes, t \in ClockReadings :
        LET r == send_report_email(location, weather, news, out, t[1], t[2]) IN
        /\ mail' = [n |-> mail.n + 1, location |-> location, weather |-> weather,
                    news |-> news, ret |-> r.ret, log |-> r.log, html |-> r.html,
                    text |-> r.text, delivered |-> r.delivered]
        /\ pc' = IF r.raised THEN "crashed" ELSE "done"
        /\ calls' = Append(calls, "send_report_email")
        /\ UNCHANGED << weather_api_key, news_api_key, branch, prompts, location,
                        geoResp, wxResp, newsResp, weather_info, news_info,
                        country, http >>

\* run(), lines 267-285
SendReport ==
    /\ pc = "mail"
    /\ Send(weather_info, news_info)

\* main(), lines 329-332
SendMockReport ==
    /\ pc = "mock_send"
    /\ Send(mock_weather, mock_news)

Next ==
    \/ Main
    \/ GetLocationInput
    \/ GetWeather
    \/ GetNews
    \/ SendReport
    \/ SendMockReport

Spec == Init /\ [][Next]_vars

---------------------------------------------------------------------------
(* The country resolver and the news client called on their own *)

\* a name with its first letter in upper case, as a user types it
Cap(s) == IF s = << >> THEN s ELSE << UpperChar(s[1]) >> \o Tail(s)

AllCities ==
    LET lists == << us_cities, gb_cities, ca_cities, au_cities, de_cities,
                    fr_cities, es_cities, ru_cities, cn_cities, in_cities >>
    IN UNION { { lists[i][k] : k \in 1..Len(lists[i]) } : i \in 1..Len(lists) }

\* locations to resolve: a city as configured, capitalised, in upper case, cut
\* short by its last letter, inside a longer text, two cities in one text, and
\* texts that name no configured city
CountryLocations ==
    { c : c \in AllCities }
    \cup { Cap(c) : c \in AllCities }
    \cup { upper(c) : c \in AllCities }
    \cup { SubSeq(c, 1, Len(c) - 1) : c \in AllCities }
    \cup { << "x" >> \o Cap(c) \o << ",", " ", "9" >> : c \in AllCities }
    \cup { Cap(a) \o << " " >> \o Cap(b) :
             a \in AllCities,
             b \in { us_cities[1], gb_cities[1], fr_cities[1], in_cities[1] } }
    \cup { Oslo, << "9","0","2","1","0" >> }

InitCountry ==
    /\ pc = "call_get_country_code"
    /\ weather_api_key = "owm-key"
    /\ news_api_key = "news-key"
    /\ location \in CountryLocations
    /\ Blank

\* country = self.get_country_code(location)
CallGetCountryCode ==
    /\ pc = "call_get_country_code"
    /\ country' = get_country_code(location)
    /\ calls' = Append(calls, "get_country_code")
    /\ pc' = "returned"
    /\ UNCHANGED << weather_api_key, news_api_key, branch, prompts, location,
                    geoResp, wxResp, newsResp, weather_info, news_info, http, mail >>

NextCountry == CallGetCountryCode

SpecCountry == InitCountry /\ [][NextCountry]_vars

InitNews ==
    /\ pc = "call_get_local_news"
    /\ weather_api_key = "owm-key"
    /\ news_api_key = "news-key"
    /\ location \in { London, Oslo }
    /\ Blank

\* news_info = self.get_local_news(location)
CallGetLocalNews ==
    /\ pc = "call_get_local_news"
    /\ \E resp \in NewsResponses(MaxArticles) :
        LET r == get_local_news(location, resp) IN
        /\ newsResp' = resp
        /\ http' = http \o r.reqs
        /\ country' = r.country
        /\ news_info' = r.ret
        /\ pc' = IF r.raised THEN "crashed" ELSE "returned"
    /\ calls' = Append(calls, "get_local_news")
    /\ UNCHANGED << weather_api_key, news_api_key, branch, prompts, location,
                    geoResp, wxResp, weather_info, mail >>

NextNews == CallGetLocalNews

SpecNews == InitNews /\ [][NextNews]_vars

---------------------------------------------------------------------------
(* Reading a rendered text back *)

Min(a, b) == IF a < b THEN a ELSE b

\* position of the first chunk equal to `chunk`, 0 if there is none
IndexOf(text, chunk) ==
    IF \E i \in 1..Len(text) : text[i] = chunk
    THEN CHOOSE i \in 1..Len(text) :
            text[i] = chunk /\ \A j \in 1..(i - 1) : text[j] # chunk
    ELSE 0

\* what stands between the heading chunk `from` and the next chunk `to`
Section(text, from, to) ==
    LET a == IndexOf(text, from)
        rest == SubSeq(text, a + 1, Len(text))
        b == IndexOf(rest, to)
    IN SubSeq(rest, 1, b - 1)

\* the chunk that follows the chunk `marker`
ChunkAfter(text, marker) == text[IndexOf(text, marker) + 1]

\* the numbered entries of a news text, in the order they stand in it: an entry
\* is a line "<number>. <title>" followed by a line "   Source: <source>"
RECURSIVE ParseEntries(_, _)
ParseEntries(text, p) ==
    IF p + 6 > Len(text) THEN << >>
    ELSE IF /\ text[p] = "\n"
            /\ text[p + 2] = ". "
            /\ text[p + 4] = "\n   Source: "
            /\ text[p + 6] = "\n"
         THEN << [number |-> text[p + 1], title |-> text[p + 3],
                  source |-> text[p + 5]] >> \o ParseEntries(text, p + 7)
         ELSE ParseEntries(text, p + 1)

WeatherRequested == Len(http) >= 2 /\ http[2].ep = "weather"

---------------------------------------------------------------------------
(* Properties *)

RunOrder ==
    << "run", "get_location_input", "get_weather_data", "get_local_news",
       "send_report_email" >>

\* C1: on the live path, whatever the weather fetch, the news fetch and the mail
\* send do, no exception leaves run(), run() always comes to its end, the methods
\* are invoked in the order get_weather_data, get_local_news, send_report_email,
\* each once, and the mailer receives exactly the two strings the fetches returned.
C1_RunCallsEveryStepOnce ==
    branch = "live" =>
        /\ pc # "crashed"
        /\ pc = "done" \/ ENABLED Next
        /\ calls = SubSeq(RunOrder, 1, Len(calls))
        /\ pc = "done" =>
            /\ calls = RunOrder
            /\ mail.n = 1
            /\ mail.location = location
            /\ mail.weather = get_weather_data(location, geoResp, wxResp).ret
            /\ mail.news = get_local_news(location, newsResp).ret

\* run() finished although the geocoder call raised, the news call raised and a
\* mail step raised
C1_Witness ==
    /\ pc = "done"
    /\ branch = "live"
    /\ geoResp.raises
    /\ newsResp.raises
    /\ ~mail.ret
    /\ mail.n = 1

MailStepCount(step) == Cardinality({ i \in 1..Len(mail.log) : mail.log[i].step = step })

\* C2 as claimed: send_report_email returns True exactly when message
\* construction, connect, STARTTLS, login and sendmail all completed; no
\* exception leaves it and no step runs twice.
C2_TrueIffFiveStepsComplete ==
    mail.n > 0 =>
        /\ mail.ret <=> \A s \in { "build_message", "connect", "starttls", "login",
                                   "as_string", "sendmail" } :
                            Completed(mail.log, s)
        /\ pc # "crashed"
        /\ \A s \in MailStepSet : MailStepCount(s) <= 1

\* C2 amended: send_report_email returns True exactly when message
\* construction, connect, STARTTLS, login, sendmail and the QUIT sent on leaving
\* the with block all completed.  If any statement of the try body raises it
\* returns False; no exception leaves it; no step runs twice.
C2_TrueIffStepsAndQuitComplete ==
    mail.n > 0 =>
        /\ mail.ret <=> \A s \in { "build_message", "connect", "starttls", "login",
                                   "as_string", "sendmail", "quit" } :
                            Completed(mail.log, s)
        /\ (\E i \in 1..Len(mail.log) : ~mail.log[i].ok) => ~mail.ret
        /\ pc # "crashed"
        /\ \A s \in MailStepSet : MailStepCount(s) <= 1

\* the message was handed over by sendmail, the server refused QUIT, and the
\* method returned False
C2_Witness ==
    /\ mail.n = 1
    /\ Completed(mail.log, "sendmail")
    /\ mail.delivered # << >>
    /\ \E i \in 1..Len(mail.log) : mail.log[i].step = "quit" /\ ~mail.log[i].ok
    /\ ~mail.ret

CountryOrder == << "us", "gb", "ca", "au", "de", "fr", "es", "ru", "cn", "in" >>

CitiesOf(code) ==
    CASE code = "us" -> us_cities
      [] code = "gb" -> gb_cities
      [] code = "ca" -> ca_cities
      [] code = "au" -> au_cities
      [] code = "de" -> de_cities
      [] code = "fr" -> fr_cities
      [] code = "es" -> es_cities
      [] code = "ru" -> ru_cities
      [] code = "cn" -> cn_cities
      [] code = "in" -> in_cities

\* the countries with an entry that occurs in the lowercased location
MatchingCountries(loc) ==
    { i \in 1..Len(CountryOrder) :
        \E k \in 1..Len(CitiesOf(CountryOrder[i])) :
            Contains(CitiesOf(CountryOrder[i])[k], lower(loc)) }

\* C3: get_country_code returns the code of the first list, in the order us, gb,
\* ca, au, de, fr, es, ru, cn, in, with an entry that is a substring of the
\* lowercased location, and "us" if no list has one; "London" gives "gb".
C3_FirstMatchingCountry ==
    pc = "returned" =>
        /\ LET m == MatchingCountries(location) IN
            country = IF m = {} THEN "us"
                      ELSE CountryOrder[CHOOSE i \in m : \A j \in m : i <= j]
        /\ location = London => country = "gb"

\* "Paris London" names a city of fr and one of gb and resolves to gb
C3_Witness ==
    /\ pc = "returned"
    /\ location = Cap(fr_cities[1]) \o << " " >> \o Cap(gb_cities[1])
    /\ MatchingCountries(location) = { 2, 6 }
    /\ country = "gb"

\* C4: for a response with status "ok" and n >= 1 articles (each of the first
\* five with a title and a source name) the news text has exactly min(n, 5)
\* numbered entries, numbered 1..min(n, 5) in order, the i-th with the title and
\* the source name of the i-th article.
C4_TopFiveNumberedEntries ==
    (/\ pc = "returned"
     /\ ~newsResp.raises
     /\ newsResp.status = "ok"
     /\ Len(newsResp.articles) >= 1
     /\ \A i \in 1..Min(Len(newsResp.articles), 5) : newsResp.articles[i].complete)
    => ParseEntries(news_info, 1) =
        [i \in 1..Min(Len(newsResp.articles), 5) |->
            [number |-> ToString(i),
             title |-> newsResp.articles[i].title,
             source |-> newsResp.articles[i].source]]

\* six articles were returned and five entries stand in the text
C4_Witness ==
    /\ pc = "returned"
    /\ newsResp.status = "ok"
    /\ Len(newsResp.articles) = 6
    /\ \A i \in 1..6 : newsResp.articles[i].complete
    /\ newsResp.articles[1] # newsResp.articles[2]
    /\ Len(ParseEntries(news_info, 1)) = 5

NoNewsAvailable == << " No news available for this location" >>

\* C5 as claimed: whenever the response carries no article, the result is the
\* fixed "no news available" string.
C5_NoArticlesAlwaysFixedString ==
    (pc = "returned" /\ ~newsResp.raises /\ newsResp.articles = << >>)
    => news_info = NoNewsAvailable

\* C5 amended: whenever the response has status "ok" and carries no article, the
\* result is the fixed "no news available" string.
C5_OkAndNoArticlesFixedString ==
    (/\ pc = "returned"
     /\ ~newsResp.raises
     /\ newsResp.status = "ok"
     /\ newsResp.articles = << >>)
    => news_info = NoNewsAvailable

C5_Witness ==
    /\ pc = "returned"
    /\ ~newsResp.raises
    /\ newsResp.status = "ok"
    /\ newsResp.articles = << >>
    /\ news_info = NoNewsAvailable

CouldNotFind(loc) == << " Could not find location: " >> \o loc

\* C6: when the geocoder returns no match, get_weather_data returns the "Could
\* not find location" message with the location in it and never calls the
\* current-conditions endpoint, and that string is the weather section of the
\* plain-text and of the HTML report the mailer builds and sends.
C6_NotFoundMessageInReport ==
    (/\ branch = "live"
     /\ Len(http) >= 1
     /\ ~geoResp.raises
     /\ geoResp.kind = "list"
     /\ geoResp.body = << >>)
    => /\ weather_info = CouldNotFind(location)
       /\ Contains(location, weather_info)
       /\ \A i \in 1..Len(http) : http[i].ep # "weather"
       /\ mail.n > 0 =>
            /\ Section(mail.text, "\n\nWEATHER INFORMATION:\n",
                       "\n\nLOCAL & NATIONAL NEWS:\n") = CouldNotFind(location)
            /\ Section(mail.html, "<h2>Weather Information</h2>",
                       "<h2>Local & National News</h2>") = CouldNotFind(location)
            /\ \A k \in 1..Len(mail.delivered) :
                /\ mail.delivered[k].text = mail.text
                /\ mail.delivered[k].html = mail.html

\* no match for "Oslo", and the report with the message was sent
C6_Witness ==
    /\ pc = "done"
    /\ branch = "live"
    /\ location = Oslo
    /\ ~geoResp.raises
    /\ geoResp.kind = "list"
    /\ geoResp.body = << >>
    /\ mail.delivered # << >>
    /\ Contains(CouldNotFind(Oslo), mail.delivered[1].text)

\* C7: when the current-conditions response carries a status code that is not
\* the success value, the returned string contains the provider's message
\* field, and it is not a formatted weather block.
C7_ProviderMessageReturned ==
    (/\ branch = "live"
     /\ WeatherRequested
     /\ ~wxResp.raises
     /\ ~(wxResp.cod.type = "int" /\ wxResp.cod.val = 200))
    => /\ wxResp.hasMessage => Contains(<< wxResp.message >>, weather_info)
       /\ weather_info[1] = " Error fetching weather data: "
       /\ \A i \in 1..Len(weather_info) :
            weather_info[i] \notin { "\nTemperature: ", "\nHumidity: ", "\nWind Speed: " }

\* the provider answered cod "404" with a message
C7_Witness ==
    /\ branch = "live"
    /\ WeatherRequested
    /\ ~wxResp.raises
    /\ wxResp.cod = [type |-> "str", val |-> 404]
    /\ wxResp.hasMessage
    /\ weather_info = << " Error fetching weather data: ", "city not found" >>

\* position of `step` in the log of the last send_report_email call, 0 if it
\* was not executed
LogIndex(step) ==
    IF \E i \in 1..Len(mail.log) : mail.log[i].step = step
    THEN CHOOSE i \in 1..Len(mail.log) : mail.log[i].step = step
    ELSE 0

SmtpOrder == << "connect", "starttls", "login", "sendmail" >>

\* C8: in one call of send_report_email the SMTP steps run only in the order
\* connect, STARTTLS, login, sendmail; a step is attempted only if the one
\* before it completed, so login needs a completed STARTTLS and sendmail a
\* completed login, and after a failing step none of the later ones runs.
C8_SmtpStepsInOrder ==
    mail.n > 0 =>
        \A a \in 1..Len(SmtpOrder) : \A b \in 1..Len(SmtpOrder) :
            (a < b /\ LogIndex(SmtpOrder[b]) > 0) =>
                /\ LogIndex(SmtpOrder[a]) > 0
                /\ LogIndex(SmtpOrder[a]) < LogIndex(SmtpOrder[b])
                /\ Completed(mail.log, SmtpOrder[a])

\* STARTTLS was attempted and failed; login and sendmail did not run
C8_Witness ==
    /\ mail.n = 1
    /\ LogIndex("starttls") > 0
    /\ ~Completed(mail.log, "starttls")
    /\ LogIndex("login") = 0
    /\ LogIndex("sendmail") = 0

\* C9: with the placeholder as weather key, whatever the news key, main() issues
\* no request to a provider, prompts for a location and calls send_report_email
\* once with the mock texts; with any other weather key it takes run() and the
\* mock branch is never entered.
C9_PlaceholderSelectsMock ==
    /\ weather_api_key = Placeholder =>
        /\ branch # "live"
        /\ http = << >>
        /\ \A i \in 1..Len(calls) : calls[i] \in { "get_location_input",
                                                   "send_report_email" }
        /\ pc = "done" =>
            /\ calls = << "get_location_input", "send_report_email" >>
            /\ location # << >>
            /\ mail.n = 1
            /\ mail.location = location
            /\ mail.weather = mock_weather
            /\ mail.news = mock_news
    /\ weather_api_key # Placeholder =>
        /\ branch # "mock"
        /\ pc # "mock_send"
        /\ pc # "main" => calls[1] = "run"
        /\ mail.n > 0 => (mail.weather = weather_info /\ mail.news = news_info)

\* the mock report went out although the news key is a real key
C9_Witness ==
    /\ pc = "done"
    /\ weather_api_key = Placeholder
    /\ news_api_key = "news-key"
    /\ mail.n = 1
    /\ mail.weather = mock_weather

\* C10: the generation timestamp in the HTML form and the one in the plain-text
\* form of one report are the same value.
C10_SameTimestampInBothForms ==
    mail.n > 0 =>
        ChunkAfter(mail.html, " Generated on ") = ChunkAfter(mail.text, "\nGenerated: ")

=============================================================================
